---- MODULE Spec2Model ----
(***************************************************************************)
(* ScanDrive front end (src/src/App.tsx): the App component's state, its   *)
(* handlers, and the asynchronous continuations of the handlers (promise   *)
(* resolutions of invoke/listen, Tauri events, timers).  Every handler     *)
(* runs to its next await in one step; a pending await is a record in      *)
(* loads, scans or runs, and its resolution is a step of its own.          *)
(***************************************************************************)
EXTENDS Integers, Sequences, FiniteSets, TLC

(***************************************************************************)
(* Bound of the model.                                                     *)
(***************************************************************************)
\* asynchronous calls started in one behaviour: handleScan, loadDirectoryContents
\* from the page or the effect, confirmDelete / confirmMoveToTrash
MaxCalls == 4

\* the longest listing handed to the pie chart
MaxEntries == 12

\* the largest magnitude, in B, KB and MB, handed to formatBytes
MaxMagnitude == 8

(***************************************************************************)
(* Strings are sequences of characters, so that split and join act on      *)
(* them as String.prototype.split and Array.prototype.join do.             *)
(***************************************************************************)
EmptyStr == <<>>
Slash == "/"

\* s.split('/')
RECURSIVE Split(_)
Split(s) ==
  IF \A i \in 1..Len(s) : s[i] # Slash
  THEN <<s>>
  ELSE LET k == CHOOSE i \in 1..Len(s) :
                  s[i] = Slash /\ \A j \in 1..(i - 1) : s[j] # Slash
       IN <<SubSeq(s, 1, k - 1)>> \o Split(SubSeq(s, k + 1, Len(s)))

\* parts.join('/')
RECURSIVE Join(_)
Join(parts) ==
  IF Len(parts) = 0 THEN EmptyStr
  ELSE IF Len(parts) = 1 THEN parts[1]
  ELSE parts[1] \o <<Slash>> \o Join(Tail(parts))

\* arr.slice(0, -1)
DropLast(arr) == SubSeq(arr, 1, Len(arr) - 1)

\* the parent path without its || '/'
ParentPath_NoFallback(p) == Join(DropLast(Split(p)))

\* currentPath.split('/').slice(0, -1).join('/') || '/'
ParentPath(p) ==
  LET joined == Join(DropLast(Split(p)))
  IN IF joined = EmptyStr THEN <<Slash>> ELSE joined

(***************************************************************************)
(* The file system the backend answers from: two volumes, "/" and "/a".    *)
(* On Windows: one volume, "C:\", whose paths are written with '\'.        *)
(***************************************************************************)
PRoot == <<"/">>
PA == <<"/", "a">>
PF == <<"/", "f">>
PG == <<"/", "a", "/", "g">>

PC == <<"C", ":", "\\">>
PUsers == <<"C", ":", "\\", "U">>
PNotes == <<"C", ":", "\\", "U", "\\", "n">>

\* Drive.path of the DriveCards
Drives == {PRoot, PA}

\* Drive.path of the DriveCards on Windows
WindowsDrives == {PC}

\* FileItem: id is unique within a listing; here the id of an entry is its path
FileItem(t, p) == [id |-> p, type |-> t, path |-> p]

DirA == FileItem("directory", PA)
FileF == FileItem("file", PF)
FileG == FileItem("file", PG)
DirUsers == FileItem("directory", PUsers)
FileNotes == FileItem("file", PNotes)

\* the entries of a directory when nothing has been deleted ("/" on Windows is the
\* root of the current volume, listed with '/' in its paths)
Children(p) ==
  IF p = PRoot THEN <<DirA, FileF>>
  ELSE IF p = PA THEN <<FileG>>
  ELSE IF p = PC THEN <<DirUsers>>
  ELSE IF p = PUsers THEN <<FileNotes>>
  ELSE <<>>

\* what get_directory_contents may answer for a path: every entry, or, once the last
\* one has been deleted, the others
DirectoryContents(p) == {Children(p), DropLast(Children(p))}

\* what scan-complete may carry for a scanned volume (the largest files below it)
ScanResults(d) ==
  IF d = PRoot THEN {<<FileG, FileF>>, <<FileF>>}
  ELSE IF d = PA THEN {<<FileG>>, <<>>}
  ELSE {<<FileNotes>>, <<>>}

\* the path a scan-progress event reports for a scanned volume
ProbePaths(d) == IF d = PC THEN {PNotes} ELSE {PG}

\* the files_scanned values of scan-progress events; a scan emits them in
\* non-decreasing order
FileCounts == {1, 2}

\* the progress value of a scan-progress event
ProgressValues == {50}

Ids(listing) == {listing[i].id : i \in 1..Len(listing)}

(***************************************************************************)
(* State of the App component (useState), then the pending work.           *)
(***************************************************************************)
VARIABLES
  isScanning,          \* useState(false)
  currentScanPath,     \* useState('')
  filesScanned,        \* useState(0)
  scanProgress,        \* useState(0)
  fileData,            \* useState<FileItem[]>([])
  selectedDrivePath,   \* useState('')
  currentPath,         \* useState('')
  isLoadingContents,   \* useState(false)
  deleteModalOpen,     \* useState(false)
  isDeleting,          \* useState(false)
  deleteNotification,  \* useState(null): <<>> is null, <<n>> a notification n
  selectedItems,       \* useState(new Set())
  filesToDelete,       \* useState<FileItem[]>([])
  loads,               \* the pending calls of loadDirectoryContents, in call order
  scans,               \* the calls of handleScan, in call order, with their backend scan
  runs,                \* the calls of confirmDelete / confirmMoveToTrash, in call order
  calls,               \* history: the number of asynchronous calls started so far
  call,                \* the function of FolderPieChart being evaluated, and its argument
  ret                  \* <<>>, or <<v>> once it has returned v

scanVars == <<isScanning, currentScanPath, filesScanned, scanProgress>>
navVars == <<fileData, selectedDrivePath, currentPath, isLoadingContents>>
delVars == <<deleteModalOpen, isDeleting, deleteNotification, selectedItems, filesToDelete>>
appVars == <<scanVars, navVars, delVars, loads, scans, runs, calls>>
chartVars == <<call, ret>>
vars == <<appVars, chartVars>>

\* no function of the chart is being evaluated
NoCall == [fn |-> "none", arg |-> <<>>]

InitApp ==
  /\ isScanning = FALSE
  /\ currentScanPath = EmptyStr
  /\ filesScanned = 0
  /\ scanProgress = 0
  /\ fileData = <<>>
  /\ selectedDrivePath = EmptyStr
  /\ currentPath = EmptyStr
  /\ isLoadingContents = FALSE
  /\ deleteModalOpen = FALSE
  /\ isDeleting = FALSE
  /\ deleteNotification = <<>>
  /\ selectedItems = {}
  /\ filesToDelete = <<>>
  /\ loads = <<>>
  /\ scans = <<>>
  /\ runs = <<>>
  /\ calls = 0

Init ==
  /\ InitApp
  /\ call = NoCall
  /\ ret = <<>>

(***************************************************************************)
(* What the user can reach on the page.                                    *)
(***************************************************************************)
\* the Modal is open over the page: only its own buttons can be used
PageInteractive == ~deleteModalOpen

\* {!isLoadingContents && <DataTable ...>}
TableRendered == PageInteractive /\ ~isLoadingContents

(***************************************************************************)
(* Directory cache and navigator.                                          *)
(***************************************************************************)
\* loadDirectoryContents(path) up to its await.  origin is 0, or the run whose
\* refresh this is.  History kept with the pending call: pathBefore, the currentPath
\* it replaced; latest, no later call has been made; behindLoad, a later call for
\* another path has already succeeded; behindScan, a scan has installed its results
\* since, and no scan has been started after that
NewLoad(path, origin) ==
  [path |-> path, origin |-> origin, pathBefore |-> currentPath,
   latest |-> TRUE, behindLoad |-> FALSE, behindScan |-> FALSE]

\* the pending calls once a later call is made
Earlier == [i \in 1..Len(loads) |-> [loads[i] EXCEPT !.latest = FALSE]]

\* the pending calls once a scan is started and the effect makes a later call
BeforeScan == [i \in 1..Len(loads) |-> [loads[i] EXCEPT !.latest = FALSE,
                                                        !.behindScan = FALSE]]

IssueLoad(path, origin) ==
  /\ isLoadingContents' = TRUE
  /\ currentPath' = path
  /\ loads' = Append(Earlier, NewLoad(path, origin))

\* a run whose work is over, but for its timer.  History kept with a run: shown, the
\* notification on display is the one this run set
TimerRun == [cmd |-> "", items |-> <<>>, path |-> EmptyStr, drive |-> EmptyStr,
             issued |-> <<>>, outcomes |-> <<>>, pc |-> "timer", shown |-> FALSE]

\* the finally block without its setFilesToDelete([])
FinishRun_KeepsBatch(r) ==
  /\ selectedItems' = {}
  /\ isDeleting' = FALSE
  /\ deleteModalOpen' = FALSE
  /\ filesToDelete' = filesToDelete
  /\ runs' = [runs EXCEPT ![r] = [TimerRun EXCEPT !.shown = runs[r].shown]]

\* the rest of confirmDelete / confirmMoveToTrash after its refresh:
\* setSelectedItems(new Set()), then the finally block, which starts the timer
FinishRun(r) ==
  /\ selectedItems' = {}
  /\ isDeleting' = FALSE
  /\ deleteModalOpen' = FALSE
  /\ filesToDelete' = <<>>
  /\ runs' = [runs EXCEPT ![r] = [TimerRun EXCEPT !.shown = runs[r].shown]]

\* a refresh whose caller is never resumed
AfterLoad_NobodyAwaits(i) == UNCHANGED <<delVars, runs>>

\* whoever awaits the load goes on: nobody, or the run that asked for the refresh
AfterLoad(i) ==
  IF loads[i].origin = 0
  THEN UNCHANGED <<delVars, runs>>
  ELSE FinishRun(loads[i].origin) /\ UNCHANGED deleteNotification

\* the pending calls without call i
Without(i) == SubSeq(loads, 1, i - 1) \o SubSeq(loads, i + 1, Len(loads))

\* the pending calls without call i, which succeeded: the earlier ones are behind it
WithoutSucceeded(i) ==
  [j \in 1..(i - 1) |->
     [loads[j] EXCEPT !.behindLoad = @ \/ loads[j].path # loads[i].path]]
    \o SubSeq(loads, i + 1, Len(loads))

\* get_directory_contents resolves: setFileData, finally setIsLoadingContents(false)
LoadSucceeds(i, contents) ==
  /\ fileData' = contents
  /\ isLoadingContents' = FALSE
  /\ loads' = WithoutSucceeded(i)
  /\ AfterLoad(i)
  /\ UNCHANGED <<scanVars, selectedDrivePath, currentPath, scans, calls>>
  /\ UNCHANGED chartVars

\* get_directory_contents rejects: catch logs, finally setIsLoadingContents(false)
LoadFails(i) ==
  /\ isLoadingContents' = FALSE
  /\ loads' = Without(i)
  /\ AfterLoad(i)
  /\ UNCHANGED <<scanVars, fileData, selectedDrivePath, currentPath, scans, calls>>
  /\ UNCHANGED chartVars

\* the directory cell's onClick: loadDirectoryContents(fileItem.path)
ClickDirectory(k) ==
  /\ TableRendered
  /\ fileData[k].type = "directory"
  /\ calls < MaxCalls
  /\ calls' = calls + 1
  /\ IssueLoad(fileData[k].path, 0)
  /\ UNCHANGED <<scanVars, fileData, selectedDrivePath, delVars, scans, runs>>
  /\ UNCHANGED chartVars

navigateUp ==
  /\ PageInteractive
  /\ currentPath # EmptyStr
  /\ currentPath # selectedDrivePath
  /\ calls < MaxCalls
  /\ calls' = calls + 1
  /\ IssueLoad(ParentPath(currentPath), 0)
  /\ selectedItems' = {}
  /\ UNCHANGED <<scanVars, fileData, selectedDrivePath, deleteModalOpen, isDeleting,
                 deleteNotification, filesToDelete, scans, runs>>
  /\ UNCHANGED chartVars

(***************************************************************************)
(* Scan session.  A record of scans is one call of handleScan: where the   *)
(* call stands (pc), whether its two handlers are subscribed (subP, subC), *)
(* and the backend scan it started (job, and last, the files_scanned of    *)
(* its latest scan-progress event).  History kept with a call made while   *)
(* isScanning was false: previous, the identifiers of the listing that its *)
(* setFileData([]) cleared, kept until its scan completes, its command is  *)
(* rejected, or a later call is made.                                      *)
(***************************************************************************)
\* isScanning={isScanning && currentScanPath === drive.path} disables the Scan button
ScanButtonEnabled(d) == ~(isScanning /\ currentScanPath = d)

\* a call of handleScan that is over, with a backend scan that emits nothing more
DeadScan == [drive |-> EmptyStr, pc |-> "settled", subP |-> FALSE, subC |-> FALSE,
             job |-> "dead", last |-> 0, previous |-> {}]

Settle(rec) ==
  IF rec.pc = "settled" /\ ~rec.subP /\ ~rec.subC /\ rec.job \in {"rejected", "dead"}
  THEN DeadScan
  ELSE rec

\* handleScan up to its first await, and the effect on selectedDrivePath it triggers:
\* if (selectedDrivePath) loadDirectoryContents(selectedDrivePath)
handleScan(d) ==
  /\ PageInteractive
  /\ ScanButtonEnabled(d)
  /\ isScanning' = TRUE
  /\ currentScanPath' = d
  /\ scanProgress' = 0
  /\ filesScanned' = 0
  /\ selectedDrivePath' = d
  /\ fileData' = <<>>
  /\ scans' = Append([t \in 1..Len(scans) |-> [scans[t] EXCEPT !.previous = {}]],
                      [drive |-> d, pc |-> "listenProgress", subP |-> FALSE,
                       subC |-> FALSE, job |-> "none", last |-> 0,
                       previous |-> IF isScanning THEN {} ELSE Ids(fileData)])
  /\ IF d # selectedDrivePath
     THEN /\ calls + 1 < MaxCalls
          /\ calls' = calls + 2
          /\ isLoadingContents' = TRUE
          /\ currentPath' = d
          /\ loads' = Append(BeforeScan, NewLoad(d, 0))
     ELSE /\ calls < MaxCalls
          /\ calls' = calls + 1
          /\ loads' = [i \in 1..Len(loads) |-> [loads[i] EXCEPT !.behindScan = FALSE]]
          /\ UNCHANGED <<isLoadingContents, currentPath>>
  /\ UNCHANGED <<delVars, runs>>
  /\ UNCHANGED chartVars

\* the first await of handleScan resolves: the scan-progress handler is subscribed
ListenProgressResolves(s) ==
  /\ scans[s].pc = "listenProgress"
  /\ scans' = [scans EXCEPT ![s].pc = "listenComplete", ![s].subP = TRUE]
  /\ UNCHANGED <<scanVars, navVars, delVars, loads, runs, calls>>
  /\ UNCHANGED chartVars

\* the second await resolves: the scan-complete handler is subscribed and
\* invoke('scan_drive') goes out.  The backend starts the scan, and the call is over
\* (when the command resolves, handleScan only logs), or it rejects the command
ListenCompleteResolves(s, accepted) ==
  /\ scans[s].pc = "listenComplete"
  /\ scans' = [scans EXCEPT ![s].subC = TRUE,
                            ![s].pc = IF accepted THEN "settled" ELSE "invoke",
                            ![s].job = IF accepted THEN "running" ELSE "rejected",
                            ![s].previous = IF accepted THEN @ ELSE {}]
  /\ UNCHANGED <<scanVars, navVars, delVars, loads, runs, calls>>
  /\ UNCHANGED chartVars

\* the catch block without its unlistenProgress() and unlistenComplete()
ScanCommandRejected_KeepsHandlers(s) ==
  /\ scans[s].pc = "invoke"
  /\ isScanning' = FALSE
  /\ scans' = [scans EXCEPT ![s].pc = "settled"]
  /\ UNCHANGED <<currentScanPath, filesScanned, scanProgress, navVars, delVars, loads,
                 runs, calls>>
  /\ UNCHANGED chartVars

\* invoke('scan_drive') rejects: the catch block
ScanCommandRejected(s) ==
  /\ scans[s].pc = "invoke"
  /\ isScanning' = FALSE
  /\ scans' = [scans EXCEPT ![s] = DeadScan]
  /\ UNCHANGED <<currentScanPath, filesScanned, scanProgress, navVars, delVars, loads,
                 runs, calls>>
  /\ UNCHANGED chartVars

\* the calls of handleScan whose scan-progress / scan-complete handler is subscribed
ProgressListeners == {t \in 1..Len(scans) : scans[t].subP}
CompleteListeners == {t \in 1..Len(scans) : scans[t].subC}

\* listen('scan-progress', ...): the handler of a subscribed call
ProgressHandler(path, count, pct) ==
  /\ currentScanPath' = path
  /\ filesScanned' = count
  /\ scanProgress' = pct

\* the backend scan of call s emits scan-progress (once more after its scan-complete:
\* a stray event); every subscribed scan-progress handler runs
ScanProgressEvent(s, path, count, pct) ==
  /\ scans[s].job \in {"running", "complete"}
  /\ count >= scans[s].last
  /\ scans' = [scans EXCEPT ![s] = Settle([@ EXCEPT !.last = count,
                  !.job = IF @ = "complete" THEN "dead" ELSE @])]
  /\ IF ProgressListeners # {}
     THEN ProgressHandler(path, count, pct)
     ELSE UNCHANGED <<currentScanPath, filesScanned, scanProgress>>
  /\ UNCHANGED <<isScanning, navVars, delVars, loads, runs, calls>>
  /\ UNCHANGED chartVars

\* listen('scan-complete', ...): the handler of a subscribed call, but for the
\* unlistenProgress() and unlistenComplete() that end it
CompleteHandler(entries) ==
  /\ isScanning' = FALSE
  /\ scanProgress' = 100
  /\ fileData' = entries

\* the handler without its unlistenProgress()
Unlisten_CompleteOnly(rec) == [rec EXCEPT !.subC = FALSE]

\* unlistenProgress(); unlistenComplete() of every call whose scan-complete handler ran
Unlisten(rec) == [rec EXCEPT !.subP = IF rec.subC THEN FALSE ELSE @, !.subC = FALSE]

\* the backend scan of call s emits scan-complete; every subscribed scan-complete
\* handler runs
ScanCompleteEvent(s, entries) ==
  /\ scans[s].job = "running"
  /\ scans' = [t \in 1..Len(scans) |->
                 Settle(Unlisten([scans[t] EXCEPT
                    !.job = IF t = s THEN "complete" ELSE @,
                    !.previous = IF t = s THEN {} ELSE @]))]
  /\ IF CompleteListeners # {}
     THEN /\ CompleteHandler(entries)
          /\ loads' = [i \in 1..Len(loads) |-> [loads[i] EXCEPT !.behindScan = TRUE]]
     ELSE UNCHANGED <<isScanning, scanProgress, fileData, loads>>
  /\ UNCHANGED <<currentScanPath, filesScanned, selectedDrivePath, currentPath,
                 isLoadingContents, delVars, runs, calls>>
  /\ UNCHANGED chartVars

(***************************************************************************)
(* Selection and batch deletion.                                           *)
(***************************************************************************)
handleSelectItem(id) ==
  /\ TableRendered
  /\ selectedItems' = IF id \in selectedItems THEN selectedItems \ {id}
                      ELSE selectedItems \cup {id}
  /\ UNCHANGED <<scanVars, navVars, deleteModalOpen, isDeleting, deleteNotification,
                 filesToDelete, loads, scans, runs, calls>>
  /\ UNCHANGED chartVars

handleSelectAll ==
  /\ TableRendered
  /\ selectedItems' = IF Cardinality(selectedItems) = Len(fileData) THEN {}
                      ELSE Ids(fileData)
  /\ UNCHANGED <<scanVars, navVars, deleteModalOpen, isDeleting, deleteNotification,
                 filesToDelete, loads, scans, runs, calls>>
  /\ UNCHANGED chartVars

\* the batch as the whole listing, whatever is selected
SelectedEntries_WholeListing == fileData

\* fileData.filter(f => selectedItems.has(f.id))
SelectedEntries == SelectSeq(fileData, LAMBDA f : f.id \in selectedItems)

\* the "Delete n selected item(s)" button
handleDeleteSelected ==
  /\ PageInteractive
  /\ selectedItems # {}
  /\ ~isDeleting
  /\ filesToDelete' = SelectedEntries
  /\ deleteModalOpen' = TRUE
  /\ UNCHANGED <<scanVars, navVars, isDeleting, deleteNotification, selectedItems,
                 loads, scans, runs, calls>>
  /\ UNCHANGED chartVars

\* the delete button of row k, rendered unless currentPath === selectedDrivePath
handleDeleteFile(k) ==
  /\ TableRendered
  /\ currentPath # selectedDrivePath
  /\ ~isDeleting
  /\ filesToDelete' = <<fileData[k]>>
  /\ deleteModalOpen' = TRUE
  /\ UNCHANGED <<scanVars, navVars, isDeleting, deleteNotification, selectedItems,
                 loads, scans, runs, calls>>
  /\ UNCHANGED chartVars

\* cancelDelete without its setFilesToDelete([])
cancelDelete_KeepsBatch ==
  /\ deleteModalOpen
  /\ deleteModalOpen' = FALSE
  /\ UNCHANGED <<scanVars, navVars, isDeleting, deleteNotification, selectedItems,
                 filesToDelete, loads, scans, runs, calls>>
  /\ UNCHANGED chartVars

\* onRequestClose of the Modal
cancelDelete ==
  /\ deleteModalOpen
  /\ deleteModalOpen' = FALSE
  /\ filesToDelete' = <<>>
  /\ UNCHANGED <<scanVars, navVars, isDeleting, deleteNotification, selectedItems,
                 loads, scans, runs, calls>>
  /\ UNCHANGED chartVars

\* the command of each mode: confirmDelete, confirmMoveToTrash
Commands == {"delete_file_or_directory", "move_to_trash"}

\* invoke(cmd, { path: item.path })
Call(cmd, item) == [cmd |-> cmd, path |-> item.path]

\* confirmDelete / confirmMoveToTrash looping over the entries selected in the listing
\* of the moment instead of filesToDelete
Confirm_FromSelection(cmd) ==
  /\ deleteModalOpen
  /\ Len(filesToDelete) # 0
  /\ Len(SelectedEntries) # 0
  /\ calls < MaxCalls
  /\ calls' = calls + 1
  /\ isDeleting' = TRUE
  /\ runs' = Append(runs, [cmd |-> cmd, items |-> SelectedEntries, path |-> currentPath,
                           drive |-> selectedDrivePath,
                           issued |-> <<Call(cmd, SelectedEntries[1])>>,
                           outcomes |-> <<>>, pc |-> "call", shown |-> FALSE])
  /\ UNCHANGED <<scanVars, navVars, deleteModalOpen, deleteNotification, selectedItems,
                 filesToDelete, loads, scans>>
  /\ UNCHANGED chartVars

\* confirmDelete (cmd = delete_file_or_directory) and confirmMoveToTrash (cmd =
\* move_to_trash) up to the first await: the closure keeps the filesToDelete,
\* currentPath and selectedDrivePath of the render the button was clicked in
Confirm(cmd) ==
  /\ deleteModalOpen
  /\ Len(filesToDelete) # 0
  /\ calls < MaxCalls
  /\ calls' = calls + 1
  /\ isDeleting' = TRUE
  /\ runs' = Append(runs, [cmd |-> cmd, items |-> filesToDelete, path |-> currentPath,
                           drive |-> selectedDrivePath,
                           issued |-> <<Call(cmd, filesToDelete[1])>>,
                           outcomes |-> <<>>, pc |-> "call", shown |-> FALSE])
  /\ UNCHANGED <<scanVars, navVars, deleteModalOpen, deleteNotification, selectedItems,
                 filesToDelete, loads, scans>>
  /\ UNCHANGED chartVars

Count(outcomes, b) == Cardinality({i \in 1..Len(outcomes) : outcomes[i] = b})

\* the notification with successCount++ placed before the await: every call counts
Notification_CountsAttempts(cmd, outcomes) ==
  [type |-> IF Count(outcomes, FALSE) = 0 THEN "success" ELSE "error",
   cmd |-> cmd,
   successCount |-> Len(outcomes),
   errorCount |-> Count(outcomes, FALSE)]

\* the argument of setDeleteNotification after the loop: successCount and errorCount
\* count the calls that resolved and the calls that threw
Notification(cmd, outcomes) ==
  [type |-> IF Count(outcomes, FALSE) = 0 THEN "success" ELSE "error",
   cmd |-> cmd,
   successCount |-> Count(outcomes, TRUE),
   errorCount |-> Count(outcomes, FALSE)]

\* the path the refresh loads: if (currentPath) ... else if (selectedDrivePath) ...
RefreshPath(run) == IF run.path # EmptyStr THEN run.path ELSE run.drive

\* the loop with the try / catch around it instead of inside: the first failure ends it
LoopContinues_StopAtFailure(run, outcomes) ==
  Len(outcomes) < Len(run.items) /\ outcomes[Len(outcomes)]

\* for (const item of filesToDelete) with the try / catch inside the loop: after
\* these outcomes the loop goes on while items are left, whatever the outcomes were
LoopContinues(run, outcomes) == Len(outcomes) < Len(run.items)

\* the runs once the notification on display is replaced or removed
NotShown == [t \in 1..Len(runs) |-> [runs[t] EXCEPT !.shown = FALSE]]

\* the outstanding delete / trash call of run r settles (ok or not): the loop goes on
\* to the next item, or ends: notification, then the refresh, or, with no path to
\* refresh, straight to the finally block
CallSettles(r, ok) ==
  /\ runs[r].pc = "call"
  /\ LET run == runs[r]
         outcomes == Append(run.outcomes, ok)
         n == Len(outcomes)
     IN IF LoopContinues(run, outcomes)
        THEN /\ runs' = [runs EXCEPT ![r].outcomes = outcomes,
                                      ![r].issued = Append(@, Call(run.cmd, run.items[n + 1]))]
             /\ UNCHANGED <<navVars, delVars, loads>>
        ELSE /\ deleteNotification' = <<Notification(run.cmd, outcomes)>>
             /\ IF RefreshPath(run) # EmptyStr
                THEN /\ IssueLoad(RefreshPath(run), r)
                     /\ runs' = [NotShown EXCEPT ![r].outcomes = outcomes,
                                                 ![r].pc = "refresh", ![r].shown = TRUE]
                     /\ UNCHANGED <<fileData, selectedDrivePath, deleteModalOpen, isDeleting,
                                    selectedItems, filesToDelete>>
                ELSE /\ selectedItems' = {}
                     /\ isDeleting' = FALSE
                     /\ deleteModalOpen' = FALSE
                     /\ filesToDelete' = <<>>
                     /\ runs' = [NotShown EXCEPT ![r] = [TimerRun EXCEPT !.shown = TRUE]]
                     /\ UNCHANGED <<navVars, loads>>
  /\ UNCHANGED <<scanVars, scans, calls>>
  /\ UNCHANGED chartVars

\* a run that is over
DoneRun == [TimerRun EXCEPT !.pc = "done"]

\* setTimeout(() => setDeleteNotification(null), 5000) of run r fires
TimerFires(r) ==
  /\ runs[r].pc = "timer"
  /\ deleteNotification' = <<>>
  /\ runs' = [NotShown EXCEPT ![r] = DoneRun]
  /\ UNCHANGED <<scanVars, navVars, deleteModalOpen, isDeleting, selectedItems,
                 filesToDelete, loads, scans, calls>>
  /\ UNCHANGED chartVars

\* onClose of the InlineNotification
DismissNotification ==
  /\ deleteNotification # <<>>
  /\ deleteNotification' = <<>>
  /\ runs' = NotShown
  /\ UNCHANGED <<scanVars, navVars, deleteModalOpen, isDeleting, selectedItems,
                 filesToDelete, loads, scans, calls>>
  /\ UNCHANGED chartVars

(***************************************************************************)
(* FolderPieChart: parseSizeToBytes, formatBytes and calculateSlices.      *)
(* Text is a sequence of characters.                                       *)
(***************************************************************************)
Digits == <<"0", "1", "2", "3", "4", "5", "6", "7", "8", "9">>
Dot == "."
Space == " "

IsDigit(c) == \E d \in 1..Len(Digits) : Digits[d] = c
DigitValue(c) == (CHOOSE d \in 1..Len(Digits) : Digits[d] = c) - 1

\* the decimal digits of n >= 0
RECURSIVE DigitsOf(_)
DigitsOf(n) ==
  IF n < Len(Digits) THEN <<Digits[n + 1]>>
  ELSE DigitsOf(n \div Len(Digits)) \o <<Digits[(n % Len(Digits)) + 1]>>

\* the integer a string of digits writes (0 for the empty string)
RECURSIVE DigitsValue(_)
DigitsValue(ds) ==
  IF ds = <<>> THEN 0
  ELSE Len(Digits) * DigitsValue(SubSeq(ds, 1, Len(ds) - 1)) + DigitValue(ds[Len(ds)])

RECURSIVE Pow(_, _)
Pow(b, n) == IF n = 0 THEN 1 ELSE b * Pow(b, n - 1)

\* toUpperCase() on the letters of the units
ToUpperCase(c) ==
  CASE c = "b" -> "B" [] c = "k" -> "K" [] c = "m" -> "M" [] c = "g" -> "G"
    [] c = "t" -> "T" [] OTHER -> c

(***************************************************************************)
(* Numbers.  NaN; a decimal mant / 10^scale times 1024^pow where the code  *)
(* parses one (without trailing zeros, so that equal values are equal      *)
(* records); a plain integer where the value is one; and IEEE 754 binary64 *)
(* with its rounding where the code divides: sign, the 53-bit significand  *)
(* sig in limbs of LimbBits bits, most significant first, and exp, the     *)
(* value being sig * 2^exp.                                                *)
(***************************************************************************)
NaN == [cls |-> "nan"]
Zero == [cls |-> "zero"]

RECURSIVE Decimal(_, _)
Decimal(mant, scale) ==
  IF mant = 0 THEN [cls |-> "dec", mant |-> 0, scale |-> 0, pow |-> 0]
  ELSE IF scale > 0 /\ mant % Len(Digits) = 0 THEN Decimal(mant \div Len(Digits), scale - 1)
  ELSE [cls |-> "dec", mant |-> mant, scale |-> scale, pow |-> 0]

MantissaBits == 53
LimbBits == 15
LimbBase == Pow(2, LimbBits)

RECURSIVE BitLength(_)
BitLength(n) == IF n = 0 THEN 0 ELSE 1 + BitLength(n \div 2)

RECURSIVE ZeroLimbs(_)
ZeroLimbs(n) == IF n <= 0 THEN <<>> ELSE <<0>> \o ZeroLimbs(n - 1)

RECURSIVE StripLimbs(_)
StripLimbs(limbs) ==
  IF limbs # <<>> /\ limbs[1] = 0 THEN StripLimbs(Tail(limbs)) ELSE limbs

\* limbs * c + carry for 0 <= c < LimbBase, from the last limb up
RECURSIVE MulLimbs(_, _, _)
MulLimbs(limbs, c, carry) ==
  IF limbs = <<>> THEN IF carry = 0 THEN <<>> ELSE <<carry>>
  ELSE LET t == limbs[Len(limbs)] * c + carry
       IN MulLimbs(SubSeq(limbs, 1, Len(limbs) - 1), c, t \div LimbBase)
            \o <<t % LimbBase>>

\* long division of limbs by 0 < d < LimbBase: <<quotient, remainder>>
RECURSIVE DivLimbs(_, _, _, _)
DivLimbs(limbs, d, r, acc) ==
  IF limbs = <<>> THEN <<acc, r>>
  ELSE LET t == r * LimbBase + limbs[1]
       IN DivLimbs(Tail(limbs), d, t % d, Append(acc, t \div d))

\* a + b, and a - b for a >= b, on limb strings of one length
RECURSIVE AddLimbs(_, _, _)
AddLimbs(a, b, carry) ==
  IF a = <<>> THEN IF carry = 0 THEN <<>> ELSE <<carry>>
  ELSE LET t == a[Len(a)] + b[Len(b)] + carry
       IN AddLimbs(SubSeq(a, 1, Len(a) - 1), SubSeq(b, 1, Len(b) - 1), t \div LimbBase)
            \o <<t % LimbBase>>

RECURSIVE SubLimbs(_, _, _)
SubLimbs(a, b, borrow) ==
  IF a = <<>> THEN <<>>
  ELSE LET t == a[Len(a)] - b[Len(b)] - borrow
       IN SubLimbs(SubSeq(a, 1, Len(a) - 1), SubSeq(b, 1, Len(b) - 1),
                   IF t < 0 THEN 1 ELSE 0)
            \o <<IF t < 0 THEN t + LimbBase ELSE t>>

\* a < b on limb strings of one length
RECURSIVE LessLimbs(_, _)
LessLimbs(a, b) ==
  IF a = <<>> THEN FALSE
  ELSE IF a[1] # b[1] THEN a[1] < b[1]
  ELSE LessLimbs(Tail(a), Tail(b))

\* the number of bits of a limb string without leading zero limbs
BitsIn(limbs) ==
  IF limbs = <<>> THEN 0 ELSE LimbBits * (Len(limbs) - 1) + BitLength(limbs[1])

\* limbs * 2^n
ShiftLeft(limbs, n) ==
  MulLimbs(limbs, Pow(2, n % LimbBits), 0) \o ZeroLimbs(n \div LimbBits)

\* limbs \div 2^n, and whether a nonzero remainder was dropped
ShiftRight(limbs, n) ==
  LET q == n \div LimbBits
      kept == SubSeq(limbs, 1, Len(limbs) - q)
      dropped == SubSeq(limbs, Len(limbs) - q + 1, Len(limbs))
      d == DivLimbs(kept, Pow(2, n % LimbBits), 0, <<>>)
  IN <<StripLimbs(d[1]), d[2] # 0 \/ \E i \in 1..Len(dropped) : dropped[i] # 0>>

\* round to nearest, ties to even: the exact value is limbs * 2^exp, plus something
\* in (0, 2^exp) when sticky
RoundToDouble(neg, rawLimbs, exp, sticky) ==
  LET limbs == StripLimbs(rawLimbs)
      n == BitsIn(limbs)
  IN IF n = 0 THEN Zero
     ELSE IF n <= MantissaBits
     THEN [cls |-> "num", neg |-> neg,
           sig |-> StripLimbs(ShiftLeft(limbs, MantissaBits - n)),
           exp |-> exp - (MantissaBits - n)]
     ELSE LET s == ShiftRight(limbs, n - MantissaBits - 1)
              guard == s[1][Len(s[1])] % 2
              k == ShiftRight(s[1], 1)[1]
              rest == sticky \/ s[2]
              up == guard = 1 /\ (rest \/ k[Len(k)] % 2 = 1)
              rounded == IF up
                         THEN StripLimbs(AddLimbs(k, ZeroLimbs(Len(k) - 1) \o <<1>>, 0))
                         ELSE k
          IN IF BitsIn(rounded) > MantissaBits
             THEN [cls |-> "num", neg |-> neg, sig |-> ShiftRight(rounded, 1)[1],
                   exp |-> exp + (n - MantissaBits) + 1]
             ELSE [cls |-> "num", neg |-> neg, sig |-> rounded,
                   exp |-> exp + (n - MantissaBits)]

RECURSIVE LimbsOf(_)
LimbsOf(n) == IF n = 0 THEN <<>> ELSE LimbsOf(n \div LimbBase) \o <<n % LimbBase>>

\* an integer as a binary64 number
Num(n) ==
  IF n = 0 THEN Zero
  ELSE RoundToDouble(n < 0, LimbsOf(IF n < 0 THEN 0 - n ELSE n), 0, FALSE)

\* x / d for an integer 0 < d < LimbBase; and 0 / 0, which is NaN
NumDivInt(x, d) ==
  IF x.cls = "nan" \/ d = 0 THEN NaN
  ELSE IF x.cls = "zero" THEN Zero
  ELSE LET q == DivLimbs(x.sig \o ZeroLimbs(2), d, 0, <<>>)
       IN RoundToDouble(x.neg, q[1], x.exp - 2 * LimbBits, q[2] # 0)

\* x * c for an integer 0 < c < LimbBase
NumMulInt(x, c) ==
  IF x.cls = "nan" THEN NaN
  ELSE IF x.cls = "zero" THEN Zero
  ELSE RoundToDouble(x.neg, MulLimbs(x.sig, c, 0), x.exp, FALSE)

\* x + y
NumAdd(x, y) ==
  IF x.cls = "nan" \/ y.cls = "nan" THEN NaN
  ELSE IF x.cls = "zero" THEN y
  ELSE IF y.cls = "zero" THEN x
  ELSE LET e == IF x.exp < y.exp THEN x.exp ELSE y.exp
           xl == StripLimbs(ShiftLeft(x.sig, x.exp - e))
           yl == StripLimbs(ShiftLeft(y.sig, y.exp - e))
           n == IF Len(xl) < Len(yl) THEN Len(yl) ELSE Len(xl)
           a == ZeroLimbs(n - Len(xl)) \o xl
           b == ZeroLimbs(n - Len(yl)) \o yl
       IN IF x.neg = y.neg THEN RoundToDouble(x.neg, AddLimbs(a, b, 0), e, FALSE)
          ELSE IF LessLimbs(a, b) THEN RoundToDouble(y.neg, SubLimbs(b, a, 0), e, FALSE)
          ELSE RoundToDouble(x.neg, SubLimbs(a, b, 0), e, FALSE)

(***************************************************************************)
(* parseSizeToBytes.                                                       *)
(***************************************************************************)
\* the longest prefix of s made of characters of class
Prefix(s, class) ==
  LET fits(n) == \A i \in 1..n : s[i] \in class
  IN SubSeq(s, 1, CHOOSE n \in 0..Len(s) : fits(n) /\ (n < Len(s) => ~fits(n + 1)))

\* \d, [\d.] and \s
DigitChars == {Digits[d] : d \in 1..Len(Digits)}
MagnitudeChars == DigitChars \cup {Dot}
Whitespace == {Space}

\* the units of the multipliers table, each with the power of 1024 it stands for
Units == <<<<"B">>, <<"K", "B">>, <<"M", "B">>, <<"G", "B">>, <<"T", "B">>>>
IsUnit(u) == \E k \in 1..Len(Units) : Units[k] = u
MultiplierPower(u) == (CHOOSE k \in 1..Len(Units) : Units[k] = u) - 1

UpperCase(s) == [i \in 1..Len(s) |-> ToUpperCase(s[i])]

NoMatch == <<>>

\* sizeStr.match(/^([\d.]+)\s*([KMGT]?B)$/i): the two groups, or NoMatch.  The three
\* parts match characters of disjoint classes, so the greedy match is the only one
Match(sizeStr) ==
  LET magnitude == Prefix(sizeStr, MagnitudeChars)
      afterMagnitude == SubSeq(sizeStr, Len(magnitude) + 1, Len(sizeStr))
      gap == Prefix(afterMagnitude, Whitespace)
      unit == SubSeq(afterMagnitude, Len(gap) + 1, Len(afterMagnitude))
  IN IF magnitude # <<>> /\ IsUnit(UpperCase(unit)) THEN <<magnitude, unit>> ELSE NoMatch

\* parseFloat on a string of digits and dots: the longest prefix that is a decimal
\* literal (digits, then optionally a dot and digits, with a digit somewhere), NaN
\* when there is none
ParseFloat(s) ==
  LET int == Prefix(s, DigitChars)
      afterInt == SubSeq(s, Len(int) + 1, Len(s))
      frac == IF afterInt # <<>> /\ afterInt[1] = Dot
              THEN Prefix(Tail(afterInt), DigitChars) ELSE <<>>
  IN IF int = <<>> /\ frac = <<>> THEN NaN
     ELSE Decimal(DigitsValue(int \o frac), Len(frac))

\* value * multipliers[unit]
TimesMultiplier(value, power) ==
  IF value.cls = "nan" THEN NaN
  ELSE IF value.mant = 0 THEN value
  ELSE [value EXCEPT !.pow = power]

parseSizeToBytes(sizeStr) ==
  LET match == Match(sizeStr)
  IN IF match = NoMatch THEN Decimal(0, 0)
     ELSE TimesMultiplier(ParseFloat(match[1]), MultiplierPower(UpperCase(match[2])))

(***************************************************************************)
(* formatBytes, for a whole number of bytes.                               *)
(***************************************************************************)
\* const k = 1024
kilo == 1024
sizes == Units
Undefined == <<"u", "n", "d", "e", "f", "i", "n", "e", "d">>

\* Math.floor(Math.log(bytes) / Math.log(k))
RECURSIVE FloorLog(_)
FloorLog(bytes) == IF bytes < kilo THEN 0 ELSE 1 + FloorLog(bytes \div kilo)

\* (bytes / divisor).toFixed(2): the nearest number of hundredths, the larger one of
\* two equally near, written with two decimal digits
ToFixed2(bytes, divisor) ==
  LET hundredths == (bytes * 200 + divisor) \div (2 * divisor)
      cents == hundredths % 100
  IN DigitsOf(hundredths \div 100) \o <<Dot>> \o DigitsOf(cents \div 10) \o DigitsOf(cents % 10)

\* a number in a string concatenation: the shortest decimal that reads back as it
NumberToString(value) ==
  LET ds == DigitsOf(value.mant)
      padded == [i \in 1..(value.scale + 1 - Len(ds)) |-> Digits[1]] \o ds
      split == Len(padded) - value.scale
  IN IF value.scale = 0 THEN ds
     ELSE SubSeq(padded, 1, split) \o <<Dot>> \o SubSeq(padded, split + 1, Len(padded))

formatBytes(bytes) ==
  IF bytes = 0 THEN <<"0", Space, "B">>
  ELSE LET i == FloorLog(bytes)
       IN NumberToString(ParseFloat(ToFixed2(bytes, Pow(kilo, i)))) \o <<Space>>
            \o (IF i + 1 <= Len(sizes) THEN sizes[i + 1] ELSE Undefined)

(***************************************************************************)
(* calculateSlices, for entries whose sizes are whole numbers of bytes.    *)
(***************************************************************************)
COLORS == <<"#0f62fe", "#4589ff", "#78a9ff", "#a6c8ff", "#d0e2ff",
            "#0043ce", "#002d9c", "#001d6c", "#001141", "#8ab4ff">>
TopCount == 9
StartAngle == -90

\* the value of a parsed size as an integer
BytesOf(value) == (value.mant * Pow(kilo, value.pow)) \div Pow(Len(Digits), value.scale)

\* fileData.map(item => ({ ...item, bytes: parseSizeToBytes(item.size) })), entries
\* being the fileData of the chart
WithBytes(entries) ==
  [i \in 1..Len(entries) |->
     [name |-> entries[i].name, bytes |-> BytesOf(parseSizeToBytes(entries[i].size))]]

\* a sort that puts an entry ahead of the earlier entries of the same bytes
RECURSIVE SortByBytes_TiesReversed(_)
SortByBytes_TiesReversed(items) ==
  IF items = <<>> THEN <<>>
  ELSE LET last == items[Len(items)]
           sorted == SortByBytes_TiesReversed(SubSeq(items, 1, Len(items) - 1))
           ahead == Cardinality({i \in 1..Len(sorted) : sorted[i].bytes > last.bytes})
       IN SubSeq(sorted, 1, ahead) \o <<last>> \o SubSeq(sorted, ahead + 1, Len(sorted))

\* .sort((a, b) => b.bytes - a.bytes): stable, largest first
RECURSIVE SortByBytes(_)
SortByBytes(items) ==
  IF items = <<>> THEN <<>>
  ELSE LET last == items[Len(items)]
           sorted == SortByBytes(SubSeq(items, 1, Len(items) - 1))
           ahead == Cardinality({i \in 1..Len(sorted) : sorted[i].bytes >= last.bytes})
       IN SubSeq(sorted, 1, ahead) \o <<last>> \o SubSeq(sorted, ahead + 1, Len(sorted))

\* .reduce((sum, item) => sum + item.bytes, 0)
RECURSIVE SumBytes(_)
SumBytes(items) == IF items = <<>> THEN 0 ELSE items[1].bytes + SumBytes(Tail(items))

\* `Others (${otherItems.length} items)`
OthersName(n) ==
  <<"O", "t", "h", "e", "r", "s", Space, "(">> \o DigitsOf(n)
    \o <<Space, "i", "t", "e", "m", "s", ")">>

\* the grouping with the cut one entry late: slice(0, 10) and slice(10)
Grouped_TopTen(sorted) ==
  LET topItems == SubSeq(sorted, 1, IF Len(sorted) < TopCount + 1 THEN Len(sorted)
                                    ELSE TopCount + 1)
      otherItems == SubSeq(sorted, Len(topItems) + 1, Len(sorted))
      otherBytes == SumBytes(otherItems)
  IN IF otherBytes > 0
     THEN Append(topItems, [name |-> OthersName(Len(otherItems)), bytes |-> otherBytes])
     ELSE topItems

\* the top 9 items, then the rest as "Others" if its bytes are more than 0
Grouped(sorted) ==
  LET topItems == SubSeq(sorted, 1, IF Len(sorted) < TopCount THEN Len(sorted)
                                    ELSE TopCount)
      otherItems == SubSeq(sorted, Len(topItems) + 1, Len(sorted))
      otherBytes == SumBytes(otherItems)
  IN IF otherBytes > 0
     THEN Append(topItems, [name |-> OthersName(Len(otherItems)), bytes |-> otherBytes])
     ELSE topItems

\* items.map((item, index) => ...) from item index on, currentAngle being the running
\* angle
RECURSIVE Layout(_, _, _, _)
Layout(items, totalBytes, index, currentAngle) ==
  IF index > Len(items) THEN <<>>
  ELSE LET item == items[index]
           percentage == NumMulInt(NumDivInt(Num(item.bytes), totalBytes), 100)
           angle == NumMulInt(NumDivInt(percentage, 100), 360)
           endAngle == NumAdd(currentAngle, angle)
       IN <<[name |-> item.name, value |-> item.bytes, percentage |-> percentage,
             color |-> COLORS[((index - 1) % Len(COLORS)) + 1],
             startAngle |-> currentAngle, endAngle |-> endAngle]>>
            \o Layout(items, totalBytes, index + 1, endAngle)

\* calculateSlices without its if (totalBytes === 0) return []
calculateSlices_NoTotalCheck(entries) ==
  IF Len(entries) = 0 THEN <<>>
  ELSE LET itemsWithBytes == SortByBytes(WithBytes(entries))
           totalBytes == SumBytes(itemsWithBytes)
       IN Layout(Grouped(itemsWithBytes), totalBytes, 1, Num(StartAngle))

calculateSlices(entries) ==
  IF Len(entries) = 0 THEN <<>>
  ELSE LET itemsWithBytes == SortByBytes(WithBytes(entries))
           totalBytes == SumBytes(itemsWithBytes)
       IN IF totalBytes = 0 THEN <<>>
          ELSE Layout(Grouped(itemsWithBytes), totalBytes, 1, Num(StartAngle))

(***************************************************************************)
(* The arguments the three functions are evaluated on.                     *)
(***************************************************************************)
Magnitudes ==
  {<<"2", Dot, "5", "0">>, <<"1">>, <<"0">>, <<"1", "0">>, <<Dot, "5">>, <<"5", Dot>>,
   <<"0", Dot, "2", "5">>, <<Dot>>, <<"1", Dot, Dot>>, <<"1", Dot, "2", Dot, "3">>,
   <<>>, <<"-", "1">>, <<"x">>, <<"1", "e", "3">>}
Gaps == {<<>>, <<Space>>, <<Space, Space>>}
UnitTexts ==
  {<<"B">>, <<"K", "B">>, <<"k", "b">>, <<"M", "b">>, <<"G", "B">>, <<"T", "B">>,
   <<"P", "B">>, <<"K">>, <<>>, <<"B", "B">>, <<"B", Space>>}
SizeStrings == {m \o g \o u : m \in Magnitudes, g \in Gaps, u \in UnitTexts}

\* half-unit steps of B, KB and MB, and the byte below each
ByteCounts ==
  {(m * u) \div 2 : m \in 0..(2 * MaxMagnitude), u \in {2, kilo, kilo * kilo}}
    \cup {(m * u) - 1 : m \in 1..MaxMagnitude, u \in {kilo, kilo * kilo}}

Garbage == <<"g", "a", "r", "b", "a", "g", "e">>
InBytes(n) == DigitsOf(n) \o <<Space, "B">>
InKB(n) == DigitsOf(n) \o <<Space, "K", "B">>

\* the size of entry i of n, by the shape of the listing
SizeOf(shape, i, n) ==
  CASE shape = "ascending" -> InBytes(i)
    [] shape = "descending" -> InBytes(n + 1 - i)
    [] shape = "equal" -> InKB(1)
    [] shape = "unparsable" -> Garbage
    [] shape = "emptyTail" -> IF i <= TopCount THEN InBytes(i) ELSE Garbage
    [] shape = "sparse" -> IF i % 2 = 0 THEN InBytes(i) ELSE InBytes(0)
    [] shape = "cyclic" -> InBytes(1 + (i % 3))

Shapes == {"ascending", "descending", "equal", "unparsable", "emptyTail", "sparse",
           "cyclic"}

EntryName(i) == <<"f">> \o DigitsOf(i)

Listing(shape, n) == [i \in 1..n |-> [name |-> EntryName(i), size |-> SizeOf(shape, i, n)]]

(***************************************************************************)
(* Evaluation of one function on one argument.                             *)
(***************************************************************************)
InitCall(fn, a) ==
  /\ call = [fn |-> fn, arg |-> a]
  /\ ret = <<>>

InitChart ==
  /\ InitApp
  /\ \/ \E s \in SizeStrings : InitCall("parseSizeToBytes", s)
     \/ \E b \in ByteCounts : InitCall("formatBytes", b)
     \/ \E shape \in Shapes : \E n \in 0..MaxEntries :
          InitCall("calculateSlices", Listing(shape, n))

ParseSizeToBytes ==
  /\ call.fn = "parseSizeToBytes"
  /\ ret = <<>>
  /\ ret' = <<parseSizeToBytes(call.arg)>>
  /\ UNCHANGED <<appVars, call>>

FormatBytes ==
  /\ call.fn = "formatBytes"
  /\ ret = <<>>
  /\ ret' = <<formatBytes(call.arg)>>
  /\ UNCHANGED <<appVars, call>>

CalculateSlices ==
  /\ call.fn = "calculateSlices"
  /\ ret = <<>>
  /\ ret' = <<calculateSlices(call.arg)>>
  /\ UNCHANGED <<appVars, call>>

ChartActions == ParseSizeToBytes \/ FormatBytes \/ CalculateSlices

(***************************************************************************)
(* Specifications.                                                         *)
(***************************************************************************)
NavActions ==
  \/ \E i \in 1..Len(loads) : \E c \in DirectoryContents(loads[i].path) : LoadSucceeds(i, c)
  \/ \E i \in 1..Len(loads) : LoadFails(i)
  \/ \E k \in 1..Len(fileData) : ClickDirectory(k)
  \/ navigateUp
  \/ \E d \in Drives : handleScan(d)

ScanActions ==
  \/ \E s \in 1..Len(scans) : ListenProgressResolves(s)
  \/ \E s \in 1..Len(scans) : \E accepted \in BOOLEAN : ListenCompleteResolves(s, accepted)
  \/ \E s \in 1..Len(scans) : ScanCommandRejected(s)
  \/ \E s \in 1..Len(scans) : \E path \in ProbePaths(scans[s].drive) :
       \E count \in FileCounts : \E pct \in ProgressValues :
         ScanProgressEvent(s, path, count, pct)
  \/ \E s \in 1..Len(scans) : \E e \in ScanResults(scans[s].drive) : ScanCompleteEvent(s, e)

SelectActions ==
  \/ \E id \in Ids(fileData) : handleSelectItem(id)
  \/ handleSelectAll

DeleteActions ==
  \/ handleDeleteSelected
  \/ \E k \in 1..Len(fileData) : handleDeleteFile(k)
  \/ cancelDelete
  \/ \E cmd \in Commands : Confirm(cmd)
  \/ \E r \in 1..Len(runs) : \E ok \in BOOLEAN : CallSettles(r, ok)
  \/ \E r \in 1..Len(runs) : TimerFires(r)
  \/ DismissNotification

\* the whole page
Next == NavActions \/ ScanActions \/ SelectActions \/ DeleteActions

Spec == Init /\ [][Next]_vars

\* navigation and scanning, nothing selected or deleted
SpecNav == Init /\ [][NavActions \/ ScanActions]_vars

\* navigation, scanning and selection
SpecSelect == Init /\ [][NavActions \/ ScanActions \/ SelectActions]_vars

\* navigation, selection and deletion, while the scans started have yet to subscribe
SpecBatch == Init /\ [][NavActions \/ SelectActions \/ DeleteActions]_vars

\* every delete / trash call that is outstanding eventually resolves or throws
SomeCallSettles == \E r \in 1..Len(runs) : \E ok \in BOOLEAN : CallSettles(r, ok)

\* every get_directory_contents request that is outstanding eventually resolves or
\* is rejected
SomeLoadResolves ==
  \/ \E i \in 1..Len(loads) : \E c \in DirectoryContents(loads[i].path) : LoadSucceeds(i, c)
  \/ \E i \in 1..Len(loads) : LoadFails(i)

\* the batch from its request to its finally block; the notification stays
RunActions ==
  \/ handleDeleteSelected
  \/ \E k \in 1..Len(fileData) : handleDeleteFile(k)
  \/ cancelDelete
  \/ \E cmd \in Commands : Confirm(cmd)
  \/ \E r \in 1..Len(runs) : \E ok \in BOOLEAN : CallSettles(r, ok)

\* navigation, selection and batches, the backend answering every call made to it
SpecBatchLive ==
  /\ Init
  /\ [][NavActions \/ SelectActions \/ RunActions]_vars
  /\ WF_vars(SomeCallSettles)
  /\ WF_vars(SomeLoadResolves)

\* navigation and scanning on Windows
WindowsNavActions ==
  \/ \E i \in 1..Len(loads) : \E c \in DirectoryContents(loads[i].path) : LoadSucceeds(i, c)
  \/ \E i \in 1..Len(loads) : LoadFails(i)
  \/ \E k \in 1..Len(fileData) : ClickDirectory(k)
  \/ navigateUp
  \/ \E d \in WindowsDrives : handleScan(d)

SpecWindows == Init /\ [][WindowsNavActions \/ ScanActions]_vars

\* parseSizeToBytes, formatBytes and calculateSlices, each on every argument
SpecChart == InitChart /\ [][ChartActions]_vars

(***************************************************************************)
(* Properties.                                                             *)
(***************************************************************************)
\* the step in which get_directory_contents of pending call i resolves
Succeeds(i) == \E c \in DirectoryContents(loads[i].path) : LoadSucceeds(i, c)

\* the step in which the backend scan of call s emits an event
ProgressOf(s) ==
  \E path \in ProbePaths(scans[s].drive) : \E count \in FileCounts :
    \E pct \in ProgressValues : ScanProgressEvent(s, path, count, pct)
CompleteOf(s) == \E e \in ScanResults(scans[s].drive) : ScanCompleteEvent(s, e)

\* the session of call s is Running: its scan has neither completed nor been rejected
SessionRunning(s) == scans[s].job \in {"none", "running"}

\* C1: last request wins.  With load(A) and then load(B) issued, A # B, and B's
\* response already in the listing, the response of A, arriving later, is discarded:
\* the listing stays B's.
C1_LastRequestWins ==
  [][\A i \in 1..Len(loads) :
       (loads[i].behindLoad /\ Succeeds(i)) => fileData' = fileData]_vars

\* C2: stale-session guard.  With a scan started while an earlier session was still
\* Running, an event the earlier session's scan emits afterwards leaves the new
\* session's filesScanned, progress, probe path, Running state and listing unchanged.
C2_StaleSessionGuard ==
  [][\A s \in 1..Len(scans) :
       ( /\ s < Len(scans)
         /\ scans[s].job = "running"
         /\ SessionRunning(Len(scans))
         /\ isScanning
         /\ (ProgressOf(s) \/ CompleteOf(s)) )
       => UNCHANGED <<filesScanned, scanProgress, currentScanPath, isScanning, fileData>>]_vars

\* C3: once the completion event of a session has been applied (its handler ran and
\* released the session's subscriptions), a later progress event of that session's
\* scan changes neither filesScanned nor progress nor the probe path.
C3_NoProgressAfterComplete ==
  [][\A s \in 1..Len(scans) :
       (scans[s].job = "complete" /\ ~scans[s].subP /\ ~scans[s].subC /\ ProgressOf(s))
       => UNCHANGED <<filesScanned, scanProgress, currentScanPath>>]_vars

\* C4: in every reachable state every selected identifier belongs to an entry of the
\* listing: the selection never outlives the listing it was made in.
C4_SelectionWithinListing == selectedItems \subseteq Ids(fileData)

\* C5: a batch execution calls the command of its mode once per entry, in batch
\* order, one call outstanding at a time, and a failed call does not keep the calls
\* for the later entries from being made: when the refresh is reached every entry has
\* been called and has settled.
C5_OncePerEntryInOrder ==
  \A r \in 1..Len(runs) :
    runs[r].pc \in {"call", "refresh"} =>
      LET run == runs[r] IN
      /\ Len(run.issued) <= Len(run.items)
      /\ \A k \in 1..Len(run.issued) :
           run.issued[k] = [cmd |-> run.cmd, path |-> run.items[k].path]
      /\ run.pc = "call" => Len(run.issued) = Len(run.outcomes) + 1
      /\ run.pc = "refresh" => /\ Len(run.issued) = Len(run.items)
                               /\ Len(run.outcomes) = Len(run.items)

\* a batch of two entries whose first call failed has reached its refresh
C5_Witness ==
  \E r \in 1..Len(runs) :
    /\ runs[r].pc = "refresh"
    /\ Len(runs[r].items) = 2
    /\ runs[r].outcomes[1] = FALSE

\* the calls of a run that resolved, and those that threw
Resolved(run) == {k \in 1..Len(run.outcomes) : run.outcomes[k]}
Threw(run) == {k \in 1..Len(run.outcomes) : ~run.outcomes[k]}

\* C6: when the loop of a batch of n entries ends, the outcome reported carries as
\* success count the number of calls that resolved, as failure count the number that
\* threw, the two add up to n, and it is a success if and only if no call threw.
C6_ExactCounts ==
  [][\A r \in 1..Len(runs) :
       (runs[r].pc = "call" /\ runs'[r].pc = "refresh") =>
         /\ Len(deleteNotification') = 1
         /\ LET n == deleteNotification'[1]
                run == runs'[r]
            IN /\ n.successCount = Cardinality(Resolved(run))
               /\ n.errorCount = Cardinality(Threw(run))
               /\ n.successCount + n.errorCount = Len(run.items)
               /\ (n.type = "success") <=> (Threw(run) = {})
               /\ n.type \in {"success", "error"}]_vars

\* a batch of two entries, the second call failed: success 1, failure 1 is on display
C6_Witness ==
  /\ deleteNotification = <<[type |-> "error", cmd |-> "move_to_trash",
                             successCount |-> 1, errorCount |-> 1]>>
  /\ \E r \in 1..Len(runs) :
       runs[r].pc = "refresh" /\ runs[r].outcomes = <<TRUE, FALSE>>

\* C7: a batch execution issues one directory-listing request as its refresh, when
\* its last call has settled and not before, for the navigator's currentPath, and
\* leaves the listing alone otherwise.
C7_OneRefreshOfCurrentPath ==
  [][\A r \in 1..Len(runs) :
       (\E ok \in BOOLEAN : CallSettles(r, ok)) =>
         /\ fileData' = fileData
         /\ IF runs'[r].pc = "call"
            THEN loads' = loads
            ELSE /\ Len(runs'[r].outcomes) = Len(runs[r].items)
                 /\ Len(loads') = Len(loads) + 1
                 /\ loads'[Len(loads')].origin = r
                 /\ loads'[Len(loads')].path = currentPath]_vars

\* C8: a load whose request fails leaves the navigator as it was before the call:
\* listing unchanged, currentPath the one from before the call, isLoading false.
C8_FailedLoadChangesNothing ==
  [][\A i \in 1..Len(loads) :
       (loads[i].latest /\ loads[i].origin = 0 /\ LoadFails(i)) =>
         /\ fileData' = fileData
         /\ currentPath' = loads[i].pathBefore
         /\ ~isLoadingContents']_vars

\* C9: when the completion event of a session is applied (the session's scan-complete
\* handler is subscribed when its scan emits scan-complete), isScanning becomes
\* false, progress 100, the listing exactly the entries of the event, and the two
\* subscriptions of the session are released.
C9_CompletionInstalls ==
  [][\A s \in 1..Len(scans) : \A e \in ScanResults(scans[s].drive) :
       (scans[s].subC /\ ScanCompleteEvent(s, e)) =>
         /\ ~isScanning'
         /\ scanProgress' = 100
         /\ fileData' = e
         /\ ~scans'[s].subP
         /\ ~scans'[s].subC]_vars

\* a scan of "/" has completed and its two entries are the listing
C9_Witness ==
  /\ ~isScanning
  /\ scanProgress = 100
  /\ fileData = <<FileG, FileF>>
  /\ \E s \in 1..Len(scans) :
       scans[s].job = "complete" /\ scans[s].drive = PRoot /\ ~scans[s].subP /\ ~scans[s].subC

\* C10: once a scan has installed its result set, the response of a directory-listing
\* request issued before the completion event does not replace it (no navigation,
\* refresh or scan start in between).
C10_ResultSetStays ==
  [][\A i \in 1..Len(loads) :
       (loads[i].behindScan /\ loads[i].latest /\ Succeeds(i)) => fileData' = fileData]_vars

\* C11: in every reachable state at most one scan-progress handler and at most one
\* scan-complete handler are subscribed, and none is while isScanning is false
C11_SingleSubscription ==
  /\ Cardinality(ProgressListeners) <= 1
  /\ Cardinality(CompleteListeners) <= 1
  /\ ~isScanning => (ProgressListeners = {} /\ CompleteListeners = {})

C13_SelectAllToggles ==
  [][handleSelectAll =>
       selectedItems' = IF Ids(fileData) \subseteq selectedItems
                        THEN {} ELSE Ids(fileData)]_vars

\* C14: while currentPath is the scanned root no batch is requested, by the delete
\* button of a row or by the delete-selected button, and none is executed
C14_RootProtected ==
  [][(currentPath = selectedDrivePath) =>
       ~(\/ handleDeleteSelected
         \/ \E k \in 1..Len(fileData) : handleDeleteFile(k)
         \/ \E cmd \in Commands : Confirm(cmd))]_vars

\* C15: a step of handleDeleteSelected or handleDeleteFile records the batch and opens
\* the confirmation, a step of cancelDelete empties the batch and closes it; neither
\* starts a call of a delete command nor changes listing, currentPath or selection
C15_RequestAndCancelFrame ==
  [][/\ (handleDeleteSelected \/ \E k \in 1..Len(fileData) : handleDeleteFile(k)) =>
          /\ deleteModalOpen'
          /\ \A n \in 1..Len(filesToDelete') :
               \E k \in 1..Len(fileData) : filesToDelete'[n] = fileData[k]
          /\ UNCHANGED <<fileData, currentPath, selectedItems, runs, loads>>
     /\ cancelDelete =>
          /\ ~deleteModalOpen'
          /\ filesToDelete' = <<>>
          /\ UNCHANGED <<fileData, currentPath, selectedItems, runs, loads>>]_vars

\* the two entries of '/' are selected and requested, and nothing has been confirmed
C15_Witness ==
  /\ deleteModalOpen
  /\ filesToDelete = <<DirA, FileF>>
  /\ selectedItems = Ids(fileData)
  /\ runs = <<>>

(***************************************************************************)
(* Properties of the chart's functions: each is about the state in which a *)
(* function has returned, call.arg being its argument and ret[1] its value.*)
(***************************************************************************)
Returned(fn) == call.fn = fn /\ ret # <<>>

\* the sum of the values of slices
SumValues(slices) == SumBytes([i \in 1..Len(slices) |-> [bytes |-> slices[i].value]])

C17_ZeroTotalNoSlices ==
  (Returned("calculateSlices") /\ SumBytes(WithBytes(call.arg)) = 0) => ret[1] = <<>>

\* three entries, none with a parsable size: no slice
C17_Witness ==
  /\ Returned("calculateSlices")
  /\ call.arg = Listing("unparsable", 3)
  /\ ret[1] = <<>>

\* C18: a non-empty slice sequence starts at -90, each slice starts where the one
\* before it ends and ends value / total * 360 after its start, the values sum to
\* the total byte value of the listing, and the last slice ends at 270
C18_AnglesCoverTheCircle ==
  (Returned("calculateSlices") /\ ret[1] # <<>>) =>
    LET slices == ret[1]
        total == SumBytes(WithBytes(call.arg))
    IN /\ slices[1].startAngle = Num(-90)
       /\ \A i \in 2..Len(slices) : slices[i].startAngle = slices[i - 1].endAngle
       /\ \A i \in 1..Len(slices) :
            slices[i].endAngle =
              NumAdd(slices[i].startAngle,
                     NumMulInt(NumDivInt(Num(slices[i].value), total), 360))
       /\ SumValues(slices) = total
       /\ slices[Len(slices)].endAngle = Num(270)

\* C19: formatBytes(0) is '0 B'; any other byte count is scaled by the largest power
\* of 1024 not above it, written with exactly two decimal digits, and followed by
\* the unit of that power, one of B, KB, MB, GB, TB
C19_TwoDecimalsAndUnit ==
  Returned("formatBytes") =>
    LET bytes == call.arg
        i == CHOOSE j \in 0..4 : Pow(1024, j) <= bytes /\ (j < 4 => bytes < Pow(1024, j + 1))
    IN IF bytes = 0 THEN ret[1] = <<"0", " ", "B">>
       ELSE ret[1] = ToFixed2(bytes, Pow(1024, i)) \o <<" ">> \o Units[i + 1]

\* C20: parseSizeToBytes never returns anything but a non-negative number; for a
\* decimal magnitude followed, after optional blanks, by B, KB, MB, GB or TB in any
\* letter case it returns the magnitude times the unit's power of 1024, and for any
\* other text 0.  (A decimal magnitude is digits with at most one dot among them.)
C20_ParseOrZero ==
  Returned("parseSizeToBytes") =>
    LET s == call.arg
        IsDecimalText(m) ==
          /\ \E i \in 1..Len(m) : IsDigit(m[i])
          /\ \A i \in 1..Len(m) : IsDigit(m[i]) \/ m[i] = "."
          /\ Cardinality({i \in 1..Len(m) : m[i] = "."}) <= 1
        DecimalValue(m) ==
          LET dots == {i \in 1..Len(m) : m[i] = "."}
          IN Decimal(DigitsValue(SelectSeq(m, IsDigit)),
                     IF dots = {} THEN 0 ELSE Len(m) - (CHOOSE i \in dots : TRUE))
        forms == {<<i, j>> \in (0..Len(s)) \X (0..Len(s)) :
                    /\ i <= j
                    /\ IsDecimalText(SubSeq(s, 1, i))
                    /\ \A n \in (i + 1)..j : s[n] = " "
                    /\ IsUnit(UpperCase(SubSeq(s, j + 1, Len(s))))}
    IN /\ ret[1].cls = "dec"
       /\ \A f \in forms :
            ret[1] = TimesMultiplier(DecimalValue(SubSeq(s, 1, f[1])),
                                     MultiplierPower(UpperCase(SubSeq(s, f[2] + 1, Len(s)))))
       /\ forms = {} => ret[1] = Decimal(0, 0)

(***************************************************************************)
(* Properties of the scan session, the navigator and the batch, continued. *)
(***************************************************************************)
\* C21: handleScan(d) called with no session Running leaves isScanning true,
\* filesScanned and progress 0, d as target root, the listing empty and the command
\* not yet issued; the command of a call is issued with both of its handlers
\* subscribed; and while the session is Running the listing holds no entry of the
\* listing that the call cleared.
C21_StartResetsAndClears ==
  [][/\ \A d \in Drives :
          (~isScanning /\ handleScan(d)) =>
            /\ isScanning'
            /\ filesScanned' = 0
            /\ scanProgress' = 0
            /\ selectedDrivePath' = d
            /\ fileData' = <<>>
            /\ scans'[Len(scans')].job = "none"
     /\ \A s \in 1..Len(scans) :
          (scans[s].job = "none" /\ scans'[s].job # "none") =>
            (scans'[s].subP /\ scans'[s].subC)
     /\ ( /\ scans # <<>>
          /\ scans' = scans
          /\ SessionRunning(Len(scans))
          /\ \A t \in 1..(Len(scans) - 1) : ~SessionRunning(t)
          /\ isScanning )
        => Ids(fileData') \cap scans[Len(scans)].previous = {}]_vars

\* C22: when the catch block of a call runs (its scan_drive command was rejected),
\* isScanning becomes false, both handlers of the call are released, filesScanned and
\* progress keep their values; and a call whose command was rejected has no scan that
\* emits scan-complete, nor a handler left to install entries
C22_RejectedStartReleases ==
  [][\A s \in 1..Len(scans) :
       /\ ScanCommandRejected(s) =>
            /\ ~isScanning'
            /\ ~scans'[s].subP
            /\ ~scans'[s].subC
            /\ scans'[s].job \notin {"running", "complete"}
            /\ UNCHANGED <<filesScanned, scanProgress, fileData>>
       /\ (scans[s].job = "rejected" \/ scans[s] = DeadScan) =>
            /\ ~CompleteOf(s)
            /\ scans[s] = DeadScan => scans'[s] = DeadScan]_vars

\* the only call of handleScan was for '/a', its command was rejected and its catch
\* block has run: not scanning, no handler subscribed, counters as the call set them
C22_Witness ==
  /\ scans = <<DeadScan>>
  /\ selectedDrivePath = PA
  /\ ~isScanning
  /\ filesScanned = 0
  /\ scanProgress = 0

\* C23: immediately after the completion event of a session is applied (its
\* scan-complete handler was subscribed when its scan emitted scan-complete),
\* currentPath is the root the session was started for (no other session Running)
C23_CompletionAtRoot ==
  [][\A s \in 1..Len(scans) : \A e \in ScanResults(scans[s].drive) :
       ( /\ scans[s].subC
         /\ \A t \in 1..Len(scans) : t # s => ~SessionRunning(t)
         /\ ScanCompleteEvent(s, e) )
       => currentPath' = scans[s].drive]_vars

\* C24: in every reachable state currentPath is empty, the scanned root, or a
\* descendant of the scanned root (the root followed by further path components)
C24_WithinRoot ==
  LET root == selectedDrivePath
      n == Len(root)
      IsSeparator(c) == c \in {Slash, "\\"}
  IN \/ currentPath = EmptyStr
     \/ currentPath = root
     \/ /\ root # EmptyStr
        /\ Len(currentPath) > n
        /\ SubSeq(currentPath, 1, n) = root
        /\ IsSeparator(root[n]) \/ IsSeparator(currentPath[n + 1])

\* a batch is executing: a run is in its loop or awaits its refresh
Executing(r) == runs[r].pc \in {"call", "refresh"}

\* C25: a run takes as its entries the batch as it stands at the confirmation, keeps
\* them through every step until it ends, and its calls carry their paths in their
\* order; and while a batch awaits confirmation with no run executing, a step that
\* replaces the listing or changes the selection leaves the batch as it is
C25_BatchIsASnapshot ==
  [][/\ \A cmd \in Commands :
          Confirm(cmd) => runs'[Len(runs')].items = filesToDelete
     /\ \A r \in 1..Len(runs) :
          (Executing(r) /\ runs'[r].pc \in {"call", "refresh"}) =>
            /\ runs'[r].items = runs[r].items
            /\ Len(runs'[r].issued) <= Len(runs[r].items)
            /\ \A k \in 1..Len(runs'[r].issued) :
                 runs'[r].issued[k].path = runs[r].items[k].path
            /\ runs'[r].pc = "refresh" => Len(runs'[r].issued) = Len(runs[r].items)
     /\ ( /\ deleteModalOpen
          /\ \A r \in 1..Len(runs) : ~Executing(r)
          /\ fileData' # fileData \/ selectedItems' # selectedItems )
        => filesToDelete' = filesToDelete]_vars

\* the batch [/a, /f] was confirmed, the listing has since been replaced by that of
\* '/a', and the calls for both entries have been made
C25_Witness ==
  \E r \in 1..Len(runs) :
    /\ Executing(r)
    /\ runs[r].items = <<DirA, FileF>>
    /\ Len(runs[r].issued) = 2
    /\ fileData = <<FileG>>

\* C26: in the state a run ends in (after its refresh resolved or was rejected,
\* whatever the outcomes of its calls) the selection is empty, the batch is empty, the
\* confirmation is closed and isDeleting is false
C26_FinishedBatchIsCleared ==
  [][\A r \in 1..Len(runs) :
       (Executing(r) /\ ~(runs'[r].pc \in {"call", "refresh"})) =>
         /\ selectedItems' = {}
         /\ filesToDelete' = <<>>
         /\ ~deleteModalOpen'
         /\ ~isDeleting'
         /\ runs'[r].pc = "timer"]_vars

\* a run of two entries, one call resolved and one threw, has ended; the listing it
\* was started from is still on display
C26_Witness ==
  /\ \E r \in 1..Len(runs) : runs[r].pc = "timer"
  /\ deleteNotification = <<[type |-> "error", cmd |-> "delete_file_or_directory",
                             successCount |-> 1, errorCount |-> 1]>>
  /\ fileData = <<DirA, FileF>>
  /\ selectedItems = {}
  /\ filesToDelete = <<>>
  /\ ~deleteModalOpen
  /\ ~isDeleting

\* C27: from one state to the next in which a session is Running (isScanning stays
\* true, and no call of handleScan is made in the step, which resets the counter),
\* filesScanned does not decrease, every scan emitting non-decreasing counts
C27_FilesScannedMonotone ==
  [][(isScanning /\ isScanning' /\ Len(scans') = Len(scans))
       => filesScanned' >= filesScanned]_vars

C29_BatchFromSelection ==
  [][/\ handleDeleteSelected =>
          LET chosen == {k \in 1..Len(fileData) : fileData[k].id \in selectedItems}
              Rank(k) == Cardinality({j \in chosen : j <= k})
          IN /\ Len(filesToDelete') = Cardinality(chosen)
             /\ \A k \in chosen : filesToDelete'[Rank(k)] = fileData[k]
             /\ \A m, n \in 1..Len(filesToDelete') :
                  m # n => filesToDelete'[m].id # filesToDelete'[n].id
     /\ (deleteModalOpen /\ filesToDelete = <<>>) =>
          /\ \A cmd \in Commands : ~Confirm(cmd)
          /\ Len(runs') = Len(runs)
          /\ (\A r \in 1..Len(runs) : ~Executing(r)) =>
               Len(loads') <= Len(loads)]_vars

\* the selection made in the listing of '/' was requested after the listing of '/a'
\* had replaced it: the confirmation is open on an empty batch
C29_Witness ==
  /\ deleteModalOpen
  /\ filesToDelete = <<>>
  /\ selectedItems # {}
  /\ fileData = <<FileG>>
  /\ runs = <<>>

\* C30: in every reachable state isLoadingContents is true exactly when a call of
\* loadDirectoryContents is awaiting its request
C30_LoadingIffOutstanding == isLoadingContents <=> (loads # <<>>)

\* C31: in every reachable state at most one run is executing, and while isDeleting
\* is true no step is a confirmDelete / confirmMoveToTrash that starts another; so
\* the calls made by all the runs together carry no command and path twice
C31_OneExecutionAtATime ==
  [][/\ Cardinality({r \in 1..Len(runs) : Executing(r)}) <= 1
     /\ isDeleting => \A cmd \in Commands : ~Confirm(cmd)
     /\ \A r, t \in 1..Len(runs') :
          \A m \in 1..Len(runs'[r].issued) : \A n \in 1..Len(runs'[t].issued) :
            (r # t \/ m # n) => runs'[r].issued[m].path # runs'[t].issued[n].path]_vars

\* C32: with every delete / trash call and every directory request eventually
\* answered, whenever runs are executing a state follows in which none is and
\* isDeleting is false, every run that ends having reported a notification by then;
\* and whenever loads are outstanding a state follows in which none is and
\* isLoadingContents is false
C32_BatchesAndLoadsEnd ==
  /\ (\E r \in 1..Len(runs) : Executing(r))
       ~> ((\A r \in 1..Len(runs) : ~Executing(r)) /\ ~isDeleting)
  /\ [][\A r \in 1..Len(runs) :
          (Executing(r) /\ ~(runs'[r].pc \in {"call", "refresh"})) =>
            (runs[r].pc = "refresh" \/ deleteNotification' # <<>>)]_vars
  /\ (loads # <<>>) ~> (loads = <<>> /\ ~isLoadingContents)

\* a batch of two entries was moved to the trash, both calls resolved, the refresh
\* has been answered and the run has ended
C32_Witness ==
  /\ \E r \in 1..Len(runs) : runs[r].pc = "timer"
  /\ deleteNotification = <<[type |-> "success", cmd |-> "move_to_trash",
                             successCount |-> 2, errorCount |-> 0]>>
  /\ ~isDeleting
  /\ ~isLoadingContents
  /\ loads = <<>>

\* C33: a step that removes the notification on display is the dismissal by the
\* user or the firing of the timer of the run that set that notification
C33_OwnTimerOnly ==
  [][(deleteNotification # <<>> /\ deleteNotification' = <<>>) =>
       \/ DismissNotification
       \/ \E r \in 1..Len(runs) : runs[r].shown /\ TimerFires(r)]_vars

====
